---- MODULE Spec2Model ----
(***************************************************************************)
(* Break-supervision scheduler of py-aufsichtsplan.                        *)
(*                                                                         *)
(*  - BreakSupervisionSolver (app/services/cp_sat_solver.py): the CP-SAT   *)
(*    formulation and its three lexicographic phases.                      *)
(*  - generate_assignments (app/services/scheduler.py): the greedy         *)
(*    scheduler with its primary pick and three fallbacks, run on a        *)
(*    session without autoflush (app/database.py).                         *)
(***************************************************************************)
EXTENDS Integers, FiniteSets, Sequences, TLC

VARIABLES
    mode,       \* "cpsat" | "greedy": which scheduler this behaviour runs
    inp,        \* constructor arguments of BreakSupervisionSolver
    pc,         \* position inside solve()
    model,      \* the CpModel built by solve(): the decisions x it admits
    ph,         \* values solve() keeps between its phases
    result,     \* the SolverResult returned by solve()
    db,         \* the store and the session of generate_assignments
    existing_counts,    \* generate_assignments: duties per teacher so far
    unassigned_slots,   \* generate_assignments: slots a pass left without a teacher
    random_bias,        \* generate_assignments: this run's tie-break per teacher
    call                \* POST /generate: which request this is, the store it found

solver_vars == <<model, ph, result>>
greedy_vars == <<db, existing_counts, unassigned_slots, random_bias, call>>
vars == <<mode, inp, pc, solver_vars, greedy_vars>>

\* Python None in an Optional[int] field.
None == -1000

(***************************************************************************)
(* Bounds of the model.                                                    *)
(***************************************************************************)
NumTeachers == 2
NumSlots == 2
NumFloors == 2
MaxLoose == 1

Max(a, b) == IF a >= b THEN a ELSE b
Min(a, b) == IF a <= b THEN a ELSE b

RECURSIVE SumFn(_, _)
SumFn(S, f) ==
    IF S = {} THEN 0
    ELSE LET e == CHOOSE e \in S : TRUE IN f[e] + SumFn(S \ {e}, f)

SumOver(S, F(_)) == SumFn(S, [e \in S |-> F(e)])

MaxOver(S, F(_)) ==
    IF S = {} THEN 0 ELSE LET e == CHOOSE e \in S : \A o \in S : F(e) >= F(o) IN F(e)

MinOver(S, F(_)) ==
    IF S = {} THEN 0 ELSE LET e == CHOOSE e \in S : \A o \in S : F(e) <= F(o) IN F(e)

(***************************************************************************)
(* Solver inputs.                                                          *)
(***************************************************************************)
FloorIds == 1..NumFloors
SlotIds == 1..NumSlots

\* Break-to-period adjacency (break 1: -/1, 2: 2/3, 3: 4/5, 4: 6/7).
BreakBefore(b) == IF b = 1 THEN None ELSE 2 * b - 2
BreakAfter(b) == 2 * b - 1

\* BreakSlotSpec: slots 1, 2 lie on the first date (Monday), 3, 4 on the next.
SlotDate(s) == (s + 1) \div 2
SlotDayIndex(s) == SlotDate(s) - 1
SlotBreakIndex(s) == IF s % 2 = 1 THEN 1 ELSE 3
SlotBefore(s) == BreakBefore(SlotBreakIndex(s))
SlotAfter(s) == BreakAfter(SlotBreakIndex(s))

\* floor_weights None or {}: no floor has a weight.
NoWeights == [f \in {} |-> 0]

\* TeacherSpec values the inputs are drawn from; lessons are <<weekday, hour>>.
TeacherChoices == <<
    [target |-> 2, prio_rank |-> 10, preferred_floor |-> None, floor_weights |-> NoWeights,
     lessons |-> {}, availability_days |-> 0],
    [target |-> 1, prio_rank |-> 10, preferred_floor |-> 1, floor_weights |-> NoWeights,
     lessons |-> {<<0, 1>>, <<1, 5>>}, availability_days |-> 0],
    [target |-> 1, prio_rank |-> 150, preferred_floor |-> 2, floor_weights |-> NoWeights,
     lessons |-> {<<0, 1>>, <<0, 5>>}, availability_days |-> 2],
    [target |-> 0, prio_rank |-> -5, preferred_floor |-> None, floor_weights |-> NoWeights,
     lessons |-> {<<0, 1>>, <<0, 2>>, <<0, 4>>, <<1, 1>>}, availability_days |-> 0],
    [target |-> 2, prio_rank |-> 10, preferred_floor |-> 1,
     floor_weights |-> [f \in {1} |-> 2],
     lessons |-> {<<0, 1>>, <<0, 4>>}, availability_days |-> 5],
    [target |-> 4, prio_rank |-> 0, preferred_floor |-> None, floor_weights |-> NoWeights,
     lessons |-> {<<0, 1>>, <<0, 4>>}, availability_days |-> 0]
>>

\* needs of one slot: floor -> head count (0: the floor is absent from needs).
\* The first slot may need two heads on a floor or a head on two floors.
NeedChoices(s) ==
    {[f \in FloorIds |-> 0], [f \in FloorIds |-> IF f = 1 THEN 1 ELSE 0]}
    \cup (IF s = 1
          THEN {[f \in FloorIds |-> IF f = 1 THEN 2 ELSE 0],
                [f \in FloorIds |-> IF f <= 2 THEN 1 ELSE 0]}
          ELSE {})

\* fairness_band, max_extra_duties, max_one_per_day, band_penalty.
SettingChoices ==
    {<<None, None, FALSE, 200000>>, <<0, None, FALSE, 200000>>, <<None, 1, FALSE, 200000>>,
     <<0, 0, FALSE, 200000>>, <<0, 1, FALSE, 200000>>, <<None, None, TRUE, 200000>>,
     <<1, 1, TRUE, 200000>>, <<0, None, FALSE, 0>>, <<None, 0, FALSE, 200000>>}

Teachers == 1..Len(inp.teachers)

(***************************************************************************)
(* TeacherSpec.has_adjacent_lesson, eligibility and the constructor's      *)
(* derived values.                                                         *)
(***************************************************************************)
has_adjacent_lesson(t, day_index, before_period, after_period) ==
    LET periods == {l[2] : l \in {m \in inp.teachers[t].lessons : m[1] = day_index}}
    IN  IF periods = {} THEN FALSE
        ELSE IF before_period # None /\ before_period \in periods THEN TRUE
        ELSE IF after_period # None /\ after_period \in periods THEN TRUE
        ELSE FALSE

eligibility(t, s) ==
    has_adjacent_lesson(t, SlotDayIndex(s), SlotBefore(s), SlotAfter(s))

Need(s, f) == inp.needs[s][f]

\* teacher.target after _compute_eligibility's clamp.
Target(t) == Max(0, inp.teachers[t].target)

NeedKeys == {k \in SlotIds \X FloorIds : Need(k[1], k[2]) > 0}

total_need ==
    LET need(k) == Max(0, Need(k[1], k[2])) IN SumOver(SlotIds \X FloorIds, need)

max_target == MaxOver(Teachers, Target)

\* Mutant of max_extra_duties: the setting is not kept.
max_extra_duties_dropped == None

fairness_band ==
    IF inp.fairness_band = None \/ inp.fairness_band >= 0 THEN inp.fairness_band ELSE 0

max_extra_duties ==
    IF inp.max_extra_duties = None THEN None ELSE Max(0, inp.max_extra_duties)

band_penalty == Max(0, inp.band_penalty)

\* Mutant of _priority_cost: prio is not clamped at 0.
_priority_cost_unclamped(t, f) ==
    LET fw == inp.teachers[t].floor_weights
        pref == inp.teachers[t].preferred_floor
        base == IF DOMAIN fw # {}
                THEN LET w(g) == fw[g]
                     IN  IF f \in DOMAIN fw THEN fw[f] ELSE MaxOver(DOMAIN fw, w) + 1
                ELSE IF pref = None THEN 1
                ELSE IF pref = f THEN 0
                ELSE 3
        rank == inp.teachers[t].prio_rank
    IN  base * (100 + Min(IF rank # None THEN rank ELSE 10, 100))

_priority_cost(t, f) ==
    LET fw == inp.teachers[t].floor_weights
        pref == inp.teachers[t].preferred_floor
        base == IF DOMAIN fw # {}
                THEN LET w(g) == fw[g]
                         default_penalty == MaxOver(DOMAIN fw, w) + 1
                     IN  IF f \in DOMAIN fw THEN fw[f] ELSE default_penalty
                ELSE IF pref = None THEN 1
                ELSE IF pref = f THEN 0
                ELSE 3
        rank == inp.teachers[t].prio_rank
        prio == Max(0, IF rank # None THEN rank ELSE 10)
        multiplier == 100 + Min(prio, 100)
    IN  base * multiplier

(***************************************************************************)
(* The CP-SAT model built by solve(): decision variables x[t, s, f] and    *)
(* the values of the auxiliary variables.                                  *)
(***************************************************************************)
\* decision_vars: one boolean per eligible teacher and (slot, floor) in need.
Keys == {k \in Teachers \X SlotIds \X FloorIds :
            eligibility(k[1], k[2]) /\ Need(k[2], k[3]) > 0}

Count(x, s, f) == Cardinality({k \in x : k[2] = s /\ k[3] = f})
Load(x, t) == Cardinality({k \in x : k[1] = t})

\* model.Add(sum(floor_vars) + shortfall == need), shortfall in [0, need].
CoverageConstraint(x) ==
    \A k \in NeedKeys :
        LET shortfall == Need(k[1], k[2]) - Count(x, k[1], k[2])
        IN  shortfall \in 0..Need(k[1], k[2])

\* Mutant of TeacherSlotConstraint: the per-(teacher, slot) sum is not limited.
TeacherSlotConstraintOff(x) == x \subseteq Keys

\* model.Add(sum(vars_in_slot) <= 1) for every (teacher, slot).
TeacherSlotConstraint(x) ==
    \A t \in Teachers, s \in SlotIds :
        Cardinality({k \in x : k[1] = t /\ k[2] = s}) <= 1

deviation_cap == total_need + max_target

under_weight(t) == Max(1, IF inp.teachers[t].availability_days # 0
                          THEN inp.teachers[t].availability_days ELSE 1)

max_cost == LET c(k) == _priority_cost(k[1], k[3]) IN MaxOver(Keys, c)

priority_upper ==
    IF \E k \in Keys : _priority_cost(k[1], k[3]) # 0
    THEN (IF max_cost # 0 THEN max_cost * total_need ELSE total_need)
    ELSE 0

\* day_assignment_vars: (teacher, date) pairs with at least one decision variable.
DayKeys == {<<k[1], SlotDate(k[2])>> : k \in Keys}

\* Mutant of DayExcessValues: day_excess is not tied to day_load.
DayExcessValuesUntied(x, t, d) ==
    0..Max(0, Cardinality({k \in Keys : k[1] = t /\ SlotDate(k[2]) = d}) - 1)

\* day_load, day_over and day_excess of one (teacher, date): the values of
\* day_excess the constraints admit.
DayExcessValues(x, t, d) ==
    LET max_for_day == Cardinality({k \in Keys : k[1] = t /\ SlotDate(k[2]) = d})
        day_load == Cardinality({k \in x : k[1] = t /\ SlotDate(k[2]) = d})
    IN  {day_excess \in 0..Max(0, max_for_day - 1) :
            \E day_over \in BOOLEAN :
                /\ day_load <= 1 + (IF day_over THEN max_for_day ELSE 0)
                /\ (~day_over => day_load <= 1)
                /\ (max_for_day >= 2 /\ day_over => day_load >= 2)
                /\ (~day_over => day_excess = 0)
                /\ IF max_for_day >= 2
                   THEN day_over => day_excess + 1 = day_load
                   ELSE day_over => day_excess = 0}

\* The values daily_excess_total == sum(day_excess_terms) can take.
RECURSIVE DailyExcessTotals(_, _)
DailyExcessTotals(x, D) ==
    IF D = {} THEN {0}
    ELSE LET k == CHOOSE k \in D : TRUE
         IN  {a + b : a \in DayExcessValues(x, k[1], k[2]),
                      b \in DailyExcessTotals(x, D \ {k})}

band_active == fairness_band # None
extra_active == max_extra_duties # None

\* One valuation of the model's variables: the decision x, the slack of the
\* deviation, max_dev and band variables above their least values (ld, lm, lb)
\* and the daily excess total de.
Valuation(x, ld, lm, lb, de) ==
    LET load == [t \in Teachers |-> Load(x, t)]
        dev_pos == [t \in Teachers |-> Max(0, load[t] - Target(t)) + ld]
        dev_neg == [t \in Teachers |-> Max(0, Target(t) - load[t]) + ld]
        dev(t) == Max(dev_pos[t], dev_neg[t])
        under == [t \in Teachers |->
                    IF band_active
                    THEN Max(0, Max(0, Target(t) - fairness_band) - load[t]) + lb
                    ELSE 0]
        over == [t \in Teachers |->
                    IF band_active
                    THEN Max(0, load[t] - (Target(t) + fairness_band)) + lb
                    ELSE IF extra_active
                    THEN Max(0, load[t] - (Target(t) + max_extra_duties)) + lb
                    ELSE 0]
        cap_over == [t \in Teachers |->
                    IF extra_active
                    THEN Max(0, load[t] - (Target(t)
                            + (IF band_active THEN fairness_band ELSE 0)
                            + max_extra_duties)) + lb
                    ELSE 0]
        short == [k \in NeedKeys |-> Need(k[1], k[2]) - Count(x, k[1], k[2])]
        cost(k) == _priority_cost(k[1], k[3])
        tdev(t) == dev_pos[t] * 1 + dev_neg[t] * under_weight(t)
        tband(t) == under[t] + over[t] + cap_over[t]
    IN  [x |-> x, load |-> load, short |-> short,
         dev_pos |-> dev_pos, dev_neg |-> dev_neg,
         max_dev |-> MaxOver(Teachers, dev) + lm,
         under |-> under, over |-> over, cap_over |-> cap_over,
         P |-> SumOver(x, cost),
         total_dev |-> SumOver(Teachers, tdev),
         total_band_violation |-> SumOver(Teachers, tband),
         total_shortfall |-> SumFn(NeedKeys, short),
         daily_excess_total |-> de]

\* Variable domains and linear constraints on the auxiliary variables.
DeviationConstraint(v) ==
    /\ v.max_dev \in 0..deviation_cap
    /\ \A t \in Teachers :
        /\ v.load[t] \in 0..total_need
        /\ v.dev_pos[t] \in 0..total_need
        /\ v.dev_neg[t] \in 0..max_target
        /\ v.load[t] - Target(t) = v.dev_pos[t] - v.dev_neg[t]
        /\ v.max_dev >= v.dev_pos[t]
        /\ v.max_dev >= v.dev_neg[t]

\* Mutant of BandConstraint: without a band, over is not limited by
\* max_extra_duties.
BandConstraintLooseOver(v) ==
    \A t \in Teachers :
        /\ band_active =>
            /\ v.under[t] \in 0..total_need
            /\ v.over[t] \in 0..total_need
            /\ v.load[t] + v.under[t] >= Max(0, Target(t) - fairness_band)
            /\ v.load[t] - v.over[t] <= Target(t) + fairness_band
            /\ (extra_active => v.over[t] <= max_extra_duties)
        /\ ~band_active /\ extra_active =>
            /\ v.over[t] \in 0..total_need
            /\ v.load[t] - v.over[t] <= Target(t) + max_extra_duties
        /\ extra_active =>
            LET extra_cap == Target(t) + (IF band_active THEN fairness_band ELSE 0)
                                + max_extra_duties
            IN  extra_cap >= 0 =>
                    /\ v.cap_over[t] \in 0..total_need
                    /\ v.load[t] <= extra_cap + v.cap_over[t]

\* Mutant of BandConstraint: band_over is not limited by max_extra_duties.
BandConstraintNoCap(v) ==
    \A t \in Teachers :
        /\ band_active =>
            /\ v.under[t] \in 0..total_need
            /\ v.over[t] \in 0..total_need
            /\ v.load[t] + v.under[t] >= Max(0, Target(t) - fairness_band)
            /\ v.load[t] - v.over[t] <= Target(t) + fairness_band
        /\ ~band_active /\ extra_active =>
            /\ v.over[t] \in 0..total_need
            /\ v.load[t] - v.over[t] <= Target(t) + max_extra_duties
        /\ extra_active =>
            LET extra_cap == Target(t) + (IF band_active THEN fairness_band ELSE 0)
                                + max_extra_duties
            IN  extra_cap >= 0 =>
                    /\ v.cap_over[t] \in 0..total_need
                    /\ v.load[t] <= extra_cap + v.cap_over[t]

BandConstraint(v) ==
    \A t \in Teachers :
        /\ band_active =>
            /\ v.under[t] \in 0..total_need
            /\ v.over[t] \in 0..total_need
            /\ v.load[t] + v.under[t] >= Max(0, Target(t) - fairness_band)
            /\ v.load[t] - v.over[t] <= Target(t) + fairness_band
            /\ (extra_active => v.over[t] <= max_extra_duties)
        /\ ~band_active /\ extra_active =>
            /\ v.over[t] \in 0..total_need
            /\ v.load[t] - v.over[t] <= Target(t) + max_extra_duties
            /\ v.over[t] <= max_extra_duties
        /\ extra_active =>
            LET extra_cap == Target(t) + (IF band_active THEN fairness_band ELSE 0)
                                + max_extra_duties
            IN  extra_cap >= 0 =>
                    /\ v.cap_over[t] \in 0..total_need
                    /\ v.load[t] <= extra_cap + v.cap_over[t]

TotalsConstraint(v) ==
    /\ v.P \in 0..priority_upper
    /\ v.total_dev \in 0..(Cardinality(Teachers) * deviation_cap * 5)
    /\ v.total_band_violation \in
            0..(IF band_active \/ extra_active
                THEN Cardinality(Teachers) * deviation_cap ELSE 0)
    /\ v.total_shortfall \in 0..(IF NeedKeys # {} THEN total_need ELSE 0)
    /\ v.daily_excess_total \in 0..(IF DayKeys # {} THEN total_need ELSE 0)

\* Every valuation that satisfies the model before any phase pins a value.
\* The slacks of the valuations that are told apart: one kind of variable
\* (deviation, max_dev or band) above its least value at a time.
Slacks ==
    {l \in (0..MaxLoose) \X (0..MaxLoose) \X (0..MaxLoose) :
        Cardinality({i \in 1..3 : l[i] # 0}) <= 1}

\* The valuations over the decisions X, slacks drawn from L, that satisfy the
\* model before any phase pins a value.
SolutionsOver(X, L) ==
    LET Vals(x) == {Valuation(x, l[1], l[2], l[3], de) :
                        l \in L, de \in DailyExcessTotals(x, DayKeys)}
    IN  {v \in UNION {Vals(x) : x \in X} :
            DeviationConstraint(v) /\ BandConstraint(v) /\ TotalsConstraint(v)}

\* The decisions that satisfy the constraints on x alone.
HardDecisions ==
    {x \in SUBSET Keys : CoverageConstraint(x) /\ TeacherSlotConstraint(x)}

\* A decision x that has a valuation has the one with the least slacks.
Decisions == {v.x : v \in SolutionsOver(HardDecisions, {<<0, 0, 0>>})}

\* total_shortfall and P are sums over x alone.
ShortfallOf(x) ==
    LET short(k) == Need(k[1], k[2]) - Count(x, k[1], k[2]) IN SumOver(NeedKeys, short)

PriorityOf(x) == LET cost(k) == _priority_cost(k[1], k[3]) IN SumOver(x, cost)

(***************************************************************************)
(* CpSolver.Solve: the statuses and solutions one call can end with.       *)
(***************************************************************************)
OkStatuses == {"OPTIMAL", "FEASIBLE"}

\* Without a solution: INFEASIBLE is proved only of an unsatisfiable model,
\* UNKNOWN is the time limit expiring before any solution is found.
FailStatuses(F) == IF F = {} THEN {"INFEASIBLE", "UNKNOWN"} ELSE {"UNKNOWN"}

ArgMin(F, Obj(_)) ==
    LET vals == {Obj(v) : v \in F}
        least == CHOOSE m \in vals : \A o \in vals : m <= o
    IN  {v \in F : Obj(v) = least}

\* The solutions a call ending with status st can hold.
SolvedBy(F, Obj(_), st) == IF st = "OPTIMAL" THEN ArgMin(F, Obj) ELSE F

weight_max_dev == 1000000
weight_total_dev == 10000
\* Mutant of weight_daily_excess: under max_one_per_day the weight is above
\* that of max_dev.
weight_daily_excess_dominant == IF inp.max_one_per_day THEN 5000000 ELSE 100

weight_daily_excess == IF inp.max_one_per_day THEN 500000 ELSE 100
weight_band_violation == IF band_active \/ extra_active THEN band_penalty ELSE 0
weight_shortfall == 50000000

\* Mutant of Objective3: max_dev carries no weight.
Objective3NoMaxDev(v) ==
    v.total_dev * weight_total_dev
    + v.daily_excess_total * weight_daily_excess
    + v.total_band_violation * weight_band_violation
    + v.total_shortfall * weight_shortfall

Objective3(v) ==
    v.max_dev * weight_max_dev
    + v.total_dev * weight_total_dev
    + v.daily_excess_total * weight_daily_excess
    + v.total_band_violation * weight_band_violation
    + v.total_shortfall * weight_shortfall

\* Mutant of Pinned1: the Phase 1 optimum is not pinned.
Pinned1Off == model

\* The model after model.Add(total_shortfall == best_shortfall), and after
\* model.Add(P == best_priority) when Phase 2 succeeded.
Pinned1 == {x \in model : ShortfallOf(x) = ph.best_shortfall}
Pinned2 == {x \in Pinned1 : ph.status2 \in OkStatuses => PriorityOf(x) = ph.best_priority}

(***************************************************************************)
(* SolverResult.                                                           *)
(***************************************************************************)
NoResult == [status |-> "NONE"]

\* Mutant of EmptyResult: the demand is not reported as shortfall.
EmptyResultNoShortfall(status, loads) ==
    [status |-> status, assignments |-> {}, loads |-> loads, max_dev |-> 0,
     priority_cost |-> 0, total_dev |-> 0, daily_excess |-> 0, band_violation |-> 0,
     total_shortfall |-> 0, shortfalls |-> [k \in {} |-> 0]]

EmptyResult(status, loads) ==
    [status |-> status, assignments |-> {}, loads |-> loads, max_dev |-> 0,
     priority_cost |-> 0, total_dev |-> 0, daily_excess |-> 0, band_violation |-> 0,
     total_shortfall |-> total_need, shortfalls |-> [k \in {} |-> 0]]

\* The result read from the solver that holds valuation v.
ReadResult(status, v, best_priority) ==
    [status |-> status, assignments |-> v.x, loads |-> v.load, max_dev |-> v.max_dev,
     priority_cost |-> best_priority, total_dev |-> v.total_dev,
     daily_excess |-> v.daily_excess_total, band_violation |-> v.total_band_violation,
     total_shortfall |-> v.total_shortfall,
     shortfalls |-> [k \in {n \in NeedKeys : v.short[n] > 0} |-> v.short[k]]]

\* solver.Value() of a solver whose last Solve() found no solution: the read
\* of the empty solution raises, or where the build does not check the index
\* it yields values that belong to no solution, under the failed call's status.
Raised == [status |-> "RAISED"]

NoSolutionRead(status) ==
    {Raised,
     [status |-> status, assignments |-> {}, loads |-> [t \in Teachers |-> 0],
      max_dev |-> 0, priority_cost |-> 0, total_dev |-> 0, daily_excess |-> 0,
      band_violation |-> 0, total_shortfall |-> 0, shortfalls |-> [k \in {} |-> 0]]}

(***************************************************************************)
(* solve()                                                                 *)
(***************************************************************************)
NoPhase == [status1 |-> "NONE", best_shortfall |-> 0,
            status2 |-> "NONE", best_priority |-> 0, status3 |-> "NONE"]

\* if not self.teachers: return without building a model.
EarlyReturn ==
    /\ mode = "cpsat" /\ pc = "solve"
    /\ inp.teachers = <<>>
    /\ result' = EmptyResult(IF total_need > 0 THEN "INFEASIBLE" ELSE "OPTIMAL",
                             [t \in {} |-> 0])
    /\ pc' = "done"
    /\ UNCHANGED <<mode, inp, model, ph, greedy_vars>>

\* The variables and constraints of the model are created.
BuildModel ==
    /\ mode = "cpsat" /\ pc = "solve"
    /\ inp.teachers # <<>>
    /\ model' = Decisions
    /\ pc' = "phase1"
    /\ UNCHANGED <<mode, inp, ph, result, greedy_vars>>

\* Phase 1: minimize total_shortfall; a failure returns the empty result.
Phase1 ==
    /\ mode = "cpsat" /\ pc = "phase1"
    /\ \/ \E st \in FailStatuses(model) :
            /\ ph' = [ph EXCEPT !.status1 = st]
            /\ result' = EmptyResult(st, [t \in Teachers |-> 0])
            /\ pc' = "done"
       \/ /\ model # {}
          /\ \E st \in OkStatuses :
             \E best \in {ShortfallOf(x) : x \in SolvedBy(model, ShortfallOf, st)} :
                /\ ph' = [ph EXCEPT !.status1 = st, !.best_shortfall = best]
                /\ pc' = "phase2"
                /\ UNCHANGED result
    /\ UNCHANGED <<mode, inp, model, greedy_vars>>

\* Phase 2: minimize P under the pinned shortfall; on failure best_priority = 0
\* and P is not pinned.
Phase2 ==
    /\ mode = "cpsat" /\ pc = "phase2"
    /\ \/ \E st \in FailStatuses(Pinned1) :
            ph' = [ph EXCEPT !.status2 = st, !.best_priority = 0]
       \/ \E st \in OkStatuses :
            \E best \in {PriorityOf(x) : x \in SolvedBy(Pinned1, PriorityOf, st)} :
                ph' = [ph EXCEPT !.status2 = st, !.best_priority = best]
    /\ pc' = "phase3"
    /\ UNCHANGED <<mode, inp, model, result, greedy_vars>>

\* Phase 3 on a second solver; on failure the values are read from the first
\* solver, which holds what the Phase 2 call left.
Phase3 ==
    /\ mode = "cpsat" /\ pc = "phase3"
    /\ \/ \E st \in OkStatuses :
            /\ \E r \in {ReadResult(st, v, ph.best_priority) :
                        v \in SolvedBy(SolutionsOver(Pinned2, Slacks), Objective3, st)} :
                    result' = r
            /\ ph' = [ph EXCEPT !.status3 = st]
       \/ \E st \in FailStatuses(Pinned2) :
            /\ IF ph.status2 \in OkStatuses
               THEN \E r \in {ReadResult(ph.status2, v, ph.best_priority) :
                        v \in SolutionsOver(
                                {x \in SolvedBy(Pinned1, PriorityOf, ph.status2) :
                                    PriorityOf(x) = ph.best_priority}, Slacks)} :
                        result' = r
               ELSE result' \in NoSolutionRead(ph.status2)
            /\ ph' = [ph EXCEPT !.status3 = st]
    /\ pc' = "done"
    /\ UNCHANGED <<mode, inp, model, greedy_vars>>

\* No request has been made.
NoCall == [n |-> 0, before |-> {}, clear_attempts |-> 0]

\* The store before any session has written to it.
NoDb == [committed |-> {}, rows |-> {}, pending |-> <<>>]

(***************************************************************************)
(* Specification of the solver.                                            *)
(***************************************************************************)
TeacherInputs ==
    LET K == Len(TeacherChoices)
        Seqs == UNION {[1..n -> 1..K] : n \in 0..NumTeachers}
    IN  {[i \in DOMAIN q |-> TeacherChoices[q[i]]] :
            q \in {r \in Seqs : \A a, b \in DOMAIN r : a <= b => r[a] <= r[b]}}

SolverInputs ==
    {[teachers |-> ts, needs |-> ns, fairness_band |-> st[1],
      max_extra_duties |-> st[2], max_one_per_day |-> st[3], band_penalty |-> st[4]] :
        ts \in TeacherInputs,
        ns \in {n \in [SlotIds -> UNION {NeedChoices(s) : s \in SlotIds}] :
                    \A s \in SlotIds : n[s] \in NeedChoices(s)},
        st \in SettingChoices}

SolverInit ==
    /\ mode = "cpsat"
    /\ inp \in SolverInputs
    /\ pc = "solve"
    /\ model = {}
    /\ ph = NoPhase
    /\ result = NoResult
    /\ db = NoDb
    /\ existing_counts = <<>>
    /\ unassigned_slots = <<>>
    /\ random_bias = <<>>
    /\ call = NoCall

SolverNext == EarlyReturn \/ BuildModel \/ Phase1 \/ Phase2 \/ Phase3

SolverSpec == SolverInit /\ [][SolverNext]_vars

\* solve() has returned a SolverResult: the early return, the Phase 1 failure
\* result, or a result read from a solution.
Returned ==
    /\ mode = "cpsat" /\ pc = "done"
    /\ result.status \in OkStatuses \/ ph.status1 \notin OkStatuses

\* A second BreakSupervisionSolver on the same input with one positive need
\* decreased by 1, built once the first solve() has returned its result; call
\* keeps the first result's status and total_shortfall.
solve_decreased ==
    /\ Returned /\ call.n = 0
    /\ \E k \in NeedKeys :
            inp' = [inp EXCEPT !.needs[k[1]][k[2]] = @ - 1]
    /\ call' = [n |-> 1,
                before |-> [status |-> result.status,
                            total_shortfall |-> result.total_shortfall],
                clear_attempts |-> 0]
    /\ pc' = "solve"
    /\ model' = {}
    /\ ph' = NoPhase
    /\ result' = NoResult
    /\ UNCHANGED <<mode, db, existing_counts, unassigned_slots, random_bias>>

\* The inputs whose demand is decreased: those without a cap on extra
\* duties and without the one-duty-per-day weight.
DemandInit ==
    /\ SolverInit
    /\ inp.max_extra_duties = None /\ ~inp.max_one_per_day
    /\ inp.band_penalty = 200000

DemandSpec == DemandInit /\ [][SolverNext \/ solve_decreased]_vars

(***************************************************************************)
(* generate_assignments (app/services/scheduler.py) over the Teacher,      *)
(* Floor, DutySlot and Assignment rows of app/models.py. An Assignment row *)
(* is <<date, break_index, floor_id, teacher_id>>: its duty slot and its   *)
(* teacher.                                                                *)
(***************************************************************************)
\* routers/plan.py: bpd = 4.
breaks_per_day == 4

\* The dates start_date..end_date, counted from 1; start_date is a Monday.
NumDays == 1
Dates == 1..NumDays

Abs(a) == IF a >= 0 THEN a ELSE 0 - a
Range(q) == {q[i] : i \in DOMAIN q}

weekday(d) == (d - 1) % 7
is_weekday(d) == weekday(d) < 5

\* Teacher rows the store is filled from; target_duties = 0 also stands for a
\* teacher without a quota row.
TeacherRows == <<
    [exempt |-> FALSE, target_duties |-> 1, preferred_floor_id |-> None,
     attendance_days |-> 31, lessons |-> {<<0, 1>>, <<0, 4>>}],
    [exempt |-> FALSE, target_duties |-> 2, preferred_floor_id |-> 1,
     attendance_days |-> None, lessons |-> {<<0, 1>>, <<0, 3>>, <<1, 2>>}],
    [exempt |-> FALSE, target_duties |-> 3, preferred_floor_id |-> 2,
     attendance_days |-> 2, lessons |-> {<<0, 1>>, <<1, 1>>}],
    [exempt |-> TRUE, target_duties |-> 2, preferred_floor_id |-> None,
     attendance_days |-> 31, lessons |-> {<<0, 1>>, <<0, 6>>}],
    [exempt |-> FALSE, target_duties |-> 0, preferred_floor_id |-> None,
     attendance_days |-> 31, lessons |-> {<<0, 1>>}],
    [exempt |-> FALSE, target_duties |-> 2, preferred_floor_id |-> None,
     attendance_days |-> 0, lessons |-> {}],
    [exempt |-> FALSE, target_duties |-> 1, preferred_floor_id |-> 2,
     attendance_days |-> 31, lessons |-> {<<0, 1>>, <<0, 4>>, <<0, 6>>}],
    [exempt |-> FALSE, target_duties |-> 2, preferred_floor_id |-> 1,
     attendance_days |-> 31, lessons |-> {<<0, 1>>, <<0, 4>>}]
>>

\* Floor.required_per_break of each floor.
RequiredChoices ==
    {[f \in FloorIds |-> 1], [f \in FloorIds |-> IF f = 1 THEN 2 ELSE 0]}

\* Teacher.get_actual_attendance_days: bit flags Mo=1 .. Fr=16.
get_actual_attendance_days(t) ==
    LET att == inp.teachers[t].attendance_days
        lesson_weekdays == {l[1] : l \in {m \in inp.teachers[t].lessons :
                                            0 <= m[1] /\ m[1] <= 4}}
        bit(w) == 2 ^ w
    IN  IF att # None /\ att # 31 /\ att # 0 THEN att
        ELSE IF inp.teachers[t].lessons = {} THEN 0
        ELSE SumOver(lesson_weekdays, bit)

is_available_on_weekday(t, wd) ==
    IF wd < 0 \/ wd > 4 THEN FALSE
    ELSE (get_actual_attendance_days(t) \div (2 ^ wd)) % 2 = 1

relevant_hours(break_index) ==
    CASE break_index = 1 -> {1}
      [] break_index = 2 -> {2, 3}
      [] break_index = 3 -> {4, 5}
      [] break_index = 4 -> {6, 7}
      [] OTHER -> {}

\* Mutant of is_available_for_supervision: any lesson of the weekday counts.
is_available_for_supervision_any_hour(t, wd, break_index) ==
    \E lesson \in inp.teachers[t].lessons : lesson[1] = wd

is_available_for_supervision(t, wd, break_index) ==
    \E lesson \in inp.teachers[t].lessons :
        lesson[1] = wd /\ lesson[2] \in relevant_hours(break_index)

\* ensure_slots: one DutySlot per weekday date, break and Floor row.
slots == {k \in Dates \X (1..breaks_per_day) \X inp.floors : is_weekday(k[1])}

\* sorted(slots, key=(date, break_index, floor_id)).
RECURSIVE SortSlots(_)
SortSlots(S) ==
    IF S = {} THEN <<>>
    ELSE LET first == CHOOSE m \in S : \A o \in S \ {m} :
                        \/ m[1] < o[1]
                        \/ m[1] = o[1] /\ m[2] < o[2]
                        \/ m[1] = o[1] /\ m[2] = o[2] /\ m[3] < o[3]
         IN  <<first>> \o SortSlots(S \ {first})

sorted_slots == SortSlots(slots)

\* Mutant of eligible: the exempt flag is not read.
eligible_with_exempt == {t \in Teachers : inp.teachers[t].target_duties > 0}

\* The non-exempt teachers with a positive target.
eligible ==
    {t \in Teachers : ~inp.teachers[t].exempt /\ inp.teachers[t].target_duties > 0}

floor_required(f) ==
    Max(1, IF inp.required_per_break[f] # 0 THEN inp.required_per_break[f] ELSE 1)

(***************************************************************************)
(* The four pickers. Their queries read rows, the Assignment rows the      *)
(* session has flushed: the session is made with autoflush=False, so an    *)
(* Assignment passed to db.add() is not read before the next db.flush().   *)
(* counts is existing_counts, which is updated with every db.add().        *)
(***************************************************************************)
\* already: the teachers with a duty at (d, break_index) on some floor.
already(rows, d, break_index) ==
    {r[4] : r \in {q \in rows : q[1] = d /\ q[2] = break_index}}

\* existing_breaks: the teacher's rows of date d (one break index per row).
existing_breaks(rows, t, d) == {q \in rows : q[4] = t /\ q[1] = d}

has_consecutive(rows, t, d, break_index) ==
    \E q \in existing_breaks(rows, t, d) : Abs(q[2] - break_index) = 1

\* a / b < c / d and a / b = c / d for b, d > 0.
FracLess(x, y) == x[1] * y[2] < y[1] * x[2]
FracEq(x, y) == x[1] * y[2] = y[1] * x[2]

\* Python's tuple order on pick_teacher's key.
KeyLess(k, o) ==
    \/ k.future_options < o.future_options
    \/ /\ k.future_options = o.future_options
       /\ \/ FracLess(k.score, o.score)
          \/ /\ FracEq(k.score, o.score)
             /\ \/ FracLess(k.ratio, o.ratio)
                \/ /\ FracEq(k.ratio, o.ratio)
                   /\ \/ k.assigned < o.assigned
                      \/ k.assigned = o.assigned /\ k.bias < o.bias

\* The key of one candidate; the two float components are kept as fractions
\* <<numerator, denominator>>, the bonuses in tenths.
pick_key(rows, counts, t, d, break_index, floor_id) ==
    LET target == inp.teachers[t].target_duties
        assigned == counts[t]
        duties_today == Cardinality(existing_breaks(rows, t, d))
        days_with_duties ==
            Cardinality({q[1] : q \in {r \in rows : r[4] = t /\ r[1] \in Dates}})
        available_days == Cardinality({i \in 0..4 : is_available_on_weekday(t, i)})
        part_time_bonus == IF available_days <= 2 THEN -20
                           ELSE IF available_days <= 3 THEN -10
                           ELSE IF available_days <= 4 THEN -5
                           ELSE 0
        floor_preference_bonus ==
            IF inp.teachers[t].preferred_floor_id = floor_id THEN -8 ELSE 0
        den == Max(available_days, 1)
        future_options ==
            Cardinality({future_break \in (break_index + 1)..breaks_per_day :
                /\ ~\E eb \in existing_breaks(rows, t, d) : Abs(eb[2] - future_break) = 1
                /\ is_available_for_supervision(t, weekday(d), future_break)})
    IN  [future_options |-> future_options,
         score |-> <<10 * days_with_duties
                        + (floor_preference_bonus + part_time_bonus) * den, 10 * den>>,
         ratio |-> <<assigned + 5 * duties_today * Max(target, 1), Max(target, 1)>>,
         assigned |-> assigned,
         bias |-> random_bias[t]]

\* classify: (pref_group, duty_group) of a candidate.
classify(rows, t, d, floor_id) ==
    <<IF inp.teachers[t].preferred_floor_id = floor_id THEN 0
      ELSE IF inp.teachers[t].preferred_floor_id = None THEN 1
      ELSE 2,
      IF existing_breaks(rows, t, d) = {} THEN 0 ELSE 1>>

pick_teacher(rows, counts, d, break_index, floor_id) ==
    LET all_candidates ==
            {t \in eligible :
                /\ t \notin already(rows, d, break_index)
                /\ is_available_on_weekday(t, weekday(d))
                /\ is_available_for_supervision(t, weekday(d), break_index)
                /\ counts[t] < inp.teachers[t].target_duties}
        entries ==
            {t \in all_candidates :
                /\ ~has_consecutive(rows, t, d, break_index)
                /\ Cardinality(existing_breaks(rows, t, d)) < 2}
        zero_day_entries == {t \in entries : existing_breaks(rows, t, d) = {}}
        candidate_entries == IF zero_day_entries # {} THEN zero_day_entries ELSE entries
        priority_matrix ==
            IF zero_day_entries # {}
            THEN <<(<<0, 0>>), (<<1, 0>>), (<<2, 0>>)>>
            ELSE <<(<<0, 0>>), (<<0, 1>>), (<<1, 0>>), (<<1, 1>>), (<<2, 0>>), (<<2, 1>>)>>
        candidate_group(i) ==
            {t \in candidate_entries : classify(rows, t, d, floor_id) = priority_matrix[i]}
        hits == {i \in DOMAIN priority_matrix : candidate_group(i) # {}}
        key(t) == pick_key(rows, counts, t, d, break_index, floor_id)
    IN  IF hits = {} THEN None
        ELSE LET group == candidate_group(CHOOSE i \in hits : \A j \in hits : i <= j)
             IN  CHOOSE best_t \in group :
                    \A o \in group \ {best_t} : KeyLess(key(best_t), key(o))

\* pick_best of Fallback 1 and 2: min by (existing_counts, id) among those
\* without a duty today, if any.
pick_best(entries, rows, counts, d) ==
    LET zero == {t \in entries : existing_breaks(rows, t, d) = {}}
        pool == IF zero # {} THEN zero ELSE entries
    IN  IF entries = {} THEN None
        ELSE CHOOSE t \in pool : \A o \in pool \ {t} :
                counts[t] < counts[o] \/ (counts[t] = counts[o] /\ t < o)

\* pick_best of Fallback 3: min by (below_target_flag, ratio, duties_today,
\* existing_counts, id).
pick_best_3(entries, rows, counts, d) ==
    LET zero == {t \in entries : existing_breaks(rows, t, d) = {}}
        pool == IF zero # {} THEN zero ELSE entries
        flag(t) == IF counts[t] < inp.teachers[t].target_duties THEN 0 ELSE 1
        ratio(t) == <<counts[t], Max(inp.teachers[t].target_duties, 1)>>
        duties(t) == Cardinality(existing_breaks(rows, t, d))
        less(t, o) ==
            \/ flag(t) < flag(o)
            \/ /\ flag(t) = flag(o)
               /\ \/ FracLess(ratio(t), ratio(o))
                  \/ /\ FracEq(ratio(t), ratio(o))
                     /\ \/ duties(t) < duties(o)
                        \/ /\ duties(t) = duties(o)
                           /\ \/ counts[t] < counts[o]
                              \/ counts[t] = counts[o] /\ t < o
    IN  IF entries = {} THEN None
        ELSE CHOOSE t \in pool : \A o \in pool \ {t} : less(t, o)

\* The preferred, neutral and conflicting candidates of a fallback, in turn.
preference_classes(candidates, floor_id) ==
    <<{t \in candidates : inp.teachers[t].preferred_floor_id = floor_id},
      {t \in candidates : inp.teachers[t].preferred_floor_id = None},
      {t \in candidates : inp.teachers[t].preferred_floor_id \notin {None, floor_id}}>>

\* Mutant of pick_teacher_fallback_1: the target is not a limit.
pick_teacher_fallback_1_uncapped(rows, counts, d, break_index, floor_id) ==
    LET candidates ==
            {t \in eligible :
                /\ t \notin already(rows, d, break_index)
                /\ is_available_on_weekday(t, weekday(d))
                /\ is_available_for_supervision(t, weekday(d), break_index)
                /\ Cardinality(existing_breaks(rows, t, d)) < 2
                /\ ~has_consecutive(rows, t, d, break_index)}
        classes == preference_classes(candidates, floor_id)
        hits == {i \in 1..3 : classes[i] # {}}
    IN  IF hits = {} THEN None
        ELSE pick_best(classes[CHOOSE i \in hits : \A j \in hits : i <= j], rows, counts, d)

pick_teacher_fallback_1(rows, counts, d, break_index, floor_id) ==
    LET candidates ==
            {t \in eligible :
                /\ t \notin already(rows, d, break_index)
                /\ counts[t] < inp.teachers[t].target_duties
                /\ is_available_on_weekday(t, weekday(d))
                /\ is_available_for_supervision(t, weekday(d), break_index)
                /\ Cardinality(existing_breaks(rows, t, d)) < 2
                /\ ~has_consecutive(rows, t, d, break_index)}
        classes == preference_classes(candidates, floor_id)
        hits == {i \in 1..3 : classes[i] # {}}
    IN  IF hits = {} THEN None
        ELSE pick_best(classes[CHOOSE i \in hits : \A j \in hits : i <= j], rows, counts, d)

\* Mutant of pick_teacher_fallback_2: the target is not a limit.
pick_teacher_fallback_2_uncapped(rows, counts, d, break_index, floor_id) ==
    LET candidates ==
            {t \in eligible :
                /\ t \notin already(rows, d, break_index)
                /\ is_available_on_weekday(t, weekday(d))
                /\ is_available_for_supervision(t, weekday(d), break_index)
                /\ ~has_consecutive(rows, t, d, break_index)}
        classes == preference_classes(candidates, floor_id)
        hits == {i \in 1..3 : classes[i] # {}}
    IN  IF hits = {} THEN None
        ELSE pick_best(classes[CHOOSE i \in hits : \A j \in hits : i <= j], rows, counts, d)

pick_teacher_fallback_2(rows, counts, d, break_index, floor_id) ==
    LET candidates ==
            {t \in eligible :
                /\ t \notin already(rows, d, break_index)
                /\ counts[t] < inp.teachers[t].target_duties
                /\ is_available_on_weekday(t, weekday(d))
                /\ is_available_for_supervision(t, weekday(d), break_index)
                /\ ~has_consecutive(rows, t, d, break_index)}
        classes == preference_classes(candidates, floor_id)
        hits == {i \in 1..3 : classes[i] # {}}
    IN  IF hits = {} THEN None
        ELSE pick_best(classes[CHOOSE i \in hits : \A j \in hits : i <= j], rows, counts, d)

pick_teacher_fallback_3(rows, counts, d, break_index, floor_id) ==
    LET candidates ==
            {t \in eligible :
                /\ t \notin already(rows, d, break_index)
                /\ is_available_on_weekday(t, weekday(d))
                /\ is_available_for_supervision(t, weekday(d), break_index)
                /\ ~has_consecutive(rows, t, d, break_index)}
        classes == preference_classes(candidates, floor_id)
        hits == {i \in 1..3 : classes[i] # {}}
    IN  IF hits = {} THEN None
        ELSE pick_best_3(classes[CHOOSE i \in hits : \A j \in hits : i <= j], rows, counts, d)

(***************************************************************************)
(* The passes of generate_assignments. A pass works on                     *)
(*   [rows, pending, counts, unassigned, ok]:                              *)
(* the flushed rows, the rows passed to db.add() since the last flush,     *)
(* existing_counts, unassigned_slots and whether every flush succeeded.    *)
(***************************************************************************)
\* db.flush(): the pending rows are inserted; a second row for one
\* (duty_slot_id, teacher_id) violates uq_assignment_slot_teacher.
flush(st) ==
    IF /\ \A i, j \in DOMAIN st.pending : i # j => st.pending[i] # st.pending[j]
       /\ \A i \in DOMAIN st.pending : st.pending[i] \notin st.rows
    THEN [st EXCEPT !.rows = @ \cup Range(st.pending), !.pending = <<>>]
    ELSE [st EXCEPT !.ok = FALSE]

\* db.add(Assignment(slot, t)); existing_counts[t] += 1.
add_assignment(st, slot, t) ==
    [st EXCEPT !.pending = Append(@, <<slot[1], slot[2], slot[3], t>>),
               !.counts[t] = @ + 1]

\* list.remove(slot).
remove(q, slot) == SelectSeq(q, LAMBDA e : e # slot)

\* for _ in range(needed): pick_teacher, or note the slot and break.
RECURSIVE primary_heads(_, _, _)
primary_heads(st, slot, needed) ==
    IF needed = 0 THEN st
    ELSE LET t == pick_teacher(st.rows, st.counts, slot[1], slot[2], slot[3])
         IN  IF t = None
             THEN [st EXCEPT !.unassigned = Append(@, slot)]
             ELSE primary_heads(add_assignment(st, slot, t), slot, needed - 1)

\* for slot in sorted_slots: the heads of the slot, then db.flush().
RECURSIVE primary_pass(_, _)
primary_pass(st, todo) ==
    IF todo = <<>> \/ ~st.ok THEN st
    ELSE LET slot == Head(todo)
             current_assigned ==
                Cardinality({q \in st.rows : <<q[1], q[2], q[3]>> = slot})
             needed == Max(0, floor_required(slot[3]) - current_assigned)
         IN  primary_pass(flush(primary_heads(st, slot, needed)), Tail(todo))

pick_fallback(stage, rows, counts, slot) ==
    CASE stage = 1 -> pick_teacher_fallback_1(rows, counts, slot[1], slot[2], slot[3])
      [] stage = 2 -> pick_teacher_fallback_2(rows, counts, slot[1], slot[2], slot[3])
      [] stage = 3 -> pick_teacher_fallback_3(rows, counts, slot[1], slot[2], slot[3])

\* for slot in unassigned_slots[:]: one teacher at most; db.flush() follows
\* the whole loop.
RECURSIVE fallback_loop(_, _, _)
fallback_loop(st, todo, stage) ==
    IF todo = <<>> THEN st
    ELSE LET slot == Head(todo)
             t == pick_fallback(stage, st.rows, st.counts, slot)
         IN  fallback_loop(
                IF t = None THEN st
                ELSE [add_assignment(st, slot, t) EXCEPT !.unassigned = remove(@, slot)],
                Tail(todo), stage)

fallback_pass(st, stage) == flush(fallback_loop(st, st.unassigned, stage))

\* The pass state at the start of a pass.
pass_state ==
    [rows |-> db.rows, pending |-> db.pending, counts |-> existing_counts,
     unassigned |-> unassigned_slots, ok |-> TRUE]

\* After a pass: the IntegrityError of a failed flush leaves the function
\* (the transaction is rolled back); else the next pass runs while slots are
\* unassigned; else db.commit().
after_pass(st, next) ==
    IF ~st.ok
    THEN /\ db' = [committed |-> db.committed, rows |-> db.committed, pending |-> <<>>]
         /\ pc' = "raised"
         /\ UNCHANGED <<existing_counts, unassigned_slots>>
    ELSE /\ existing_counts' = st.counts
         /\ unassigned_slots' = st.unassigned
         /\ IF next # "commit" /\ st.unassigned # <<>>
            THEN /\ db' = [db EXCEPT !.rows = st.rows, !.pending = st.pending]
                 /\ pc' = next
            ELSE /\ db' = [committed |-> st.rows, rows |-> st.rows, pending |-> <<>>]
                 /\ pc' = "done"

\* The injective tie-breaks random.random() draws for the eligible teachers.
Biases ==
    {b \in [eligible -> 1..Cardinality(eligible)] :
        \A t, o \in eligible : t # o => b[t] # b[o]}

\* Mutant of clear_assignments: nothing is deleted.
clear_assignments_nothing(rows) == rows

\* clear_assignments: the assignments on duty slots dated in [start, end] are
\* deleted.
clear_assignments(rows) == {r \in rows : r[1] \notin Dates}

\* ensure_slots, clear_assignments (committed), the eligible teachers, their
\* random_bias and existing_counts; return when nobody is eligible. The
\* store may refuse the delete or its commit with a lock error
\* (OperationalError), which clear_assignments does not catch.
GenStart ==
    /\ mode = "greedy" /\ pc = "generate"
    /\ \/ /\ db' = [committed |-> clear_assignments(db.committed),
                    rows |-> clear_assignments(db.rows),
                    pending |-> <<>>]
          /\ IF eligible = {}
             THEN pc' = "done" /\ UNCHANGED <<existing_counts, random_bias>>
             ELSE /\ random_bias' \in Biases
                  /\ existing_counts' =
                        [t \in eligible |->
                            Cardinality({r \in db'.rows : r[4] = t /\ r[1] \in Dates})]
                  /\ pc' = "primary"
       \/ /\ pc' = "lock_failed"
          /\ UNCHANGED <<db, existing_counts, random_bias>>
    /\ call' = [call EXCEPT !.clear_attempts = @ + 1]
    /\ UNCHANGED <<mode, inp, solver_vars, unassigned_slots>>

\* A further POST /generate for the same week, once the last one has returned.
MaxCalls == 2

generate_post ==
    /\ mode = "greedy" /\ pc = "done" /\ call.n < MaxCalls
    /\ call' = [n |-> call.n + 1, before |-> db.committed, clear_attempts |-> 0]
    /\ pc' = "generate"
    /\ existing_counts' = <<>>
    /\ unassigned_slots' = <<>>
    /\ random_bias' = <<>>
    /\ UNCHANGED <<mode, inp, solver_vars, db>>

PrimaryPass ==
    /\ mode = "greedy" /\ pc = "primary"
    /\ after_pass(primary_pass(pass_state, sorted_slots), "fallback1")
    /\ UNCHANGED <<mode, inp, solver_vars, random_bias, call>>

Fallback1Pass ==
    /\ mode = "greedy" /\ pc = "fallback1"
    /\ after_pass(fallback_pass(pass_state, 1), "fallback2")
    /\ UNCHANGED <<mode, inp, solver_vars, random_bias, call>>

Fallback2Pass ==
    /\ mode = "greedy" /\ pc = "fallback2"
    /\ after_pass(fallback_pass(pass_state, 2), "fallback3")
    /\ UNCHANGED <<mode, inp, solver_vars, random_bias, call>>

Fallback3Pass ==
    /\ mode = "greedy" /\ pc = "fallback3"
    /\ after_pass(fallback_pass(pass_state, 3), "commit")
    /\ UNCHANGED <<mode, inp, solver_vars, random_bias, call>>

(***************************************************************************)
(* Specification of the greedy scheduler, and of both schedulers.          *)
(***************************************************************************)
TeacherRowInputs ==
    LET K == Len(TeacherRows)
    IN  {[i \in DOMAIN q |-> TeacherRows[q[i]]] :
            q \in UNION {[1..n -> 1..K] : n \in 0..NumTeachers}}

\* Assignments an earlier run or a manual edit left: one in the range, and
\* one on the Monday of the following week.
PriorChoices(ts) ==
    {{}} \cup (IF ts # <<>> THEN {{<<1, 2, 1, 1>>}, {<<1, 2, 1, 1>>, <<8, 1, 1, 1>>}}
               ELSE {})

\* The Floor rows of the store: the first floor alone, or all of them.
FloorChoices == {{1}, FloorIds}

GreedyInputs ==
    UNION {{[teachers |-> ts, required_per_break |-> rq, prior |-> pr, floors |-> fl] :
                rq \in RequiredChoices, pr \in PriorChoices(ts), fl \in FloorChoices} :
            ts \in TeacherRowInputs}

GreedyInit ==
    /\ mode = "greedy"
    /\ inp \in GreedyInputs
    /\ pc = "generate"
    /\ model = {}
    /\ ph = NoPhase
    /\ result = NoResult
    /\ db = [committed |-> inp.prior, rows |-> inp.prior, pending |-> <<>>]
    /\ existing_counts = <<>>
    /\ unassigned_slots = <<>>
    /\ random_bias = <<>>
    /\ call = [n |-> 1, before |-> inp.prior, clear_attempts |-> 0]

GreedyNext ==
    \/ GenStart \/ PrimaryPass \/ Fallback1Pass \/ Fallback2Pass \/ Fallback3Pass
    \/ generate_post

GreedySpec == GreedyInit /\ [][GreedyNext]_vars

Init == SolverInit \/ GreedyInit

(***************************************************************************)
(* Teacher.set_attendance_days (app/models.py) on the first teacher of the *)
(* store, followed by generate_assignments.                                *)
(***************************************************************************)
\* day_map of set_attendance_days.
day_map == [d \in {"Mo", "Di", "Mi", "Do", "Fr"} |->
               CASE d = "Mo" -> 0 [] d = "Di" -> 1 [] d = "Mi" -> 2
                 [] d = "Do" -> 3 [] d = "Fr" -> 4]

\* The attendance_days set_attendance_days(days_list) stores: the bit flags
\* of the listed days, 0 for an empty list.
attendance_bits(days_list) ==
    LET bit(d) == 2 ^ day_map[d]
    IN  SumOver(days_list \cap DOMAIN day_map, bit)

AttendanceInputs ==
    {[teachers |-> g.teachers, required_per_break |-> g.required_per_break,
      prior |-> g.prior, floors |-> g.floors, days_list |-> D] :
        g \in {h \in GreedyInputs : h.teachers # <<>>}, D \in SUBSET DOMAIN day_map}

AttendanceInit ==
    /\ mode = "greedy"
    /\ inp \in AttendanceInputs
    /\ pc = "attendance"
    /\ model = {}
    /\ ph = NoPhase
    /\ result = NoResult
    /\ db = [committed |-> inp.prior, rows |-> inp.prior, pending |-> <<>>]
    /\ existing_counts = <<>>
    /\ unassigned_slots = <<>>
    /\ random_bias = <<>>
    /\ call = [n |-> 1, before |-> inp.prior, clear_attempts |-> 0]

set_attendance_days ==
    /\ mode = "greedy" /\ pc = "attendance"
    /\ inp' = [inp EXCEPT !.teachers[1].attendance_days = attendance_bits(inp.days_list)]
    /\ pc' = "generate"
    /\ UNCHANGED <<mode, solver_vars, db, existing_counts, unassigned_slots,
                   random_bias, call>>

AttendanceSpec == AttendanceInit /\ [][set_attendance_days \/ GreedyNext]_vars

Next == SolverNext \/ GreedyNext

Spec == Init /\ [][Next]_vars

(***************************************************************************)
(* ensure_slots (app/services/scheduler.py) on the DutySlot table. The     *)
(* table is the sequence of its rows <<date, break_index, floor_id>>, a    *)
(* row's id being its position; ix_duty_unique keeps the rows distinct.    *)
(***************************************************************************)
\* Mutant of slot_query: the query finds nothing.
slot_query_nothing(table, key) == {}

\* db.query(DutySlot).filter(date == d, break_index == b, floor_id == f): the
\* ids of the matching rows.
slot_query(table, key) == {i \in DOMAIN table : table[i] = key}

\* The loop of ensure_slots over the (date, break, floor) triples in todo:
\* the slot found, or else a new one that is added and flushed, is appended
\* to the returned list.
RECURSIVE ensure_loop(_, _, _)
ensure_loop(table, returned, todo) ==
    IF todo = <<>> THEN [duty_slots |-> table, returned |-> returned]
    ELSE LET found == slot_query(table, Head(todo))
         IN  IF found = {}
             THEN ensure_loop(Append(table, Head(todo)),
                              Append(returned, Len(table) + 1), Tail(todo))
             ELSE ensure_loop(table, Append(returned, CHOOSE i \in found : TRUE),
                              Tail(todo))

\* daterange(start, end) without Saturdays and Sundays, range(1, bpd + 1) and
\* the floors by id, in the order of the three nested loops.
ensure_slots(table, start_date, end_date, bpd, floors) ==
    ensure_loop(table, <<>>,
        SortSlots({k \in (start_date..end_date) \X (1..bpd) \X floors : is_weekday(k[1])}))

\* Arguments and stores ensure_slots is called with: a range of up to MaxSpan
\* days starting on a Monday, Friday or Saturday, the floors that exist, and
\* a table that holds some slots of these floors already.
MaxSpan == 3

SlotTables == <<(<<>>), (<<(<<1, 1, 1>>)>>), (<<(<<2, 3, 1>>), (<<1, 1, 1>>), (<<8, 4, 1>>)>>)>>

SlotInputs ==
    {[start_date |-> st, end_date |-> st + n - 1, floors |-> fl, table |-> SlotTables[i]] :
        st \in {1, 5, 6}, n \in 1..MaxSpan, fl \in SUBSET FloorIds, i \in DOMAIN SlotTables}

SlotInit ==
    /\ mode = "slots"
    /\ inp \in {i \in SlotInputs : \A r \in Range(i.table) : r[3] \in i.floors}
    /\ pc = "ensure"
    /\ model = {}
    /\ ph = NoPhase
    /\ result = NoResult
    /\ db = [duty_slots |-> inp.table, returned |-> <<>>]
    /\ existing_counts = <<>>
    /\ unassigned_slots = <<>>
    /\ random_bias = <<>>
    /\ call = [n |-> 0, before |-> db]

\* One call of ensure_slots with the arguments of inp; db.commit() follows
\* the loops.
EnsureSlots ==
    /\ mode = "slots" /\ pc = "ensure" /\ call.n < MaxCalls
    /\ db' = ensure_slots(db.duty_slots, inp.start_date, inp.end_date,
                          breaks_per_day, inp.floors)
    /\ call' = [n |-> call.n + 1, before |-> db]
    /\ UNCHANGED <<mode, inp, pc, solver_vars, existing_counts, unassigned_slots,
                   random_bias>>

SlotSpec == SlotInit /\ [][EnsureSlots]_vars

(***************************************************************************)
(* save_changes (app/routers/plan.py): POST /save-changes on the Floor,    *)
(* DutySlot and Assignment tables. The store is                            *)
(*   [floors, duty_slots, assignments]:                                    *)
(* floors as <<name, id>>, duty slots as <<date, break_index, floor_id>>,  *)
(* assignments as <<date, break_index, floor_id, teacher_id>>. The current *)
(* week is the dates 1..5.                                                 *)
(***************************************************************************)
\* current_week_range(): Monday to Friday.
Week == 1..5

\* The Teacher rows of the store, by id.
SaveTeachers == <<
    [abbreviation |-> "MU", last_name |-> "Mueller", full_name |-> "Mueller, A"],
    [abbreviation |-> "", last_name |-> "Mueller", full_name |-> "Mueller, B"]
>>

\* teachers_by_name: abbreviation (if any), "last, first" and last name of
\* each teacher in turn; a later teacher overwrites an equal key.
RECURSIVE name_table(_)
name_table(n) ==
    IF n = 0 THEN [k \in {} |-> 0]
    ELSE LET prev == name_table(n - 1)
             t == SaveTeachers[n]
             keys == (IF t.abbreviation # "" THEN {t.abbreviation} ELSE {})
                        \cup {t.full_name, t.last_name}
         IN  [k \in DOMAIN prev \cup keys |-> IF k \in keys THEN n ELSE prev[k]]

teachers_by_name == name_table(Len(SaveTeachers))

\* str.strip() on the names a request carries.
strip(name) ==
    CASE name = " MU " -> "MU"
      [] name = " " -> ""
      [] OTHER -> name

\* The teacher ids one entry's names resolve to, in order; blank and unknown
\* names are skipped.
resolved(names) ==
    LET known(n) == strip(n) # "" /\ strip(n) \in DOMAIN teachers_by_name
        kept == SelectSeq(names, known)
    IN  [i \in DOMAIN kept |-> teachers_by_name[strip(kept[i])]]

\* The loop over request.assignments: the floor found or created, the duty
\* slot found or created, one Assignment added per resolved name.
RECURSIVE save_loop(_, _)
save_loop(st, todo) ==
    IF todo = <<>> THEN st
    ELSE LET entry == Head(todo)
             found == {f \in st.floors : f[1] = entry.floor}
             floor_id == IF found # {} THEN (CHOOSE f \in found : TRUE)[2]
                         ELSE Cardinality(st.floors) + 1
             slot == <<1 + entry.day, entry.break_index, floor_id>>
             ids == resolved(entry.teachers)
         IN  IF entry.teachers = <<>> THEN save_loop(st, Tail(todo))
             ELSE save_loop(
                    [floors |-> st.floors \cup {<<entry.floor, floor_id>>},
                     duty_slots |-> st.duty_slots \cup {slot},
                     added |-> st.added \o
                                [i \in DOMAIN ids |-> <<slot[1], slot[2], slot[3], ids[i]>>]],
                    Tail(todo))

\* save_changes: the week's assignments and duty slots are deleted and the
\* deletion is committed; then the loop and db.commit(). A second Assignment
\* for one (duty_slot_id, teacher_id) violates uq_assignment_slot_teacher at
\* the flush: the except branch rolls back what was written since the commit
\* of the deletion and answers 500.
save_changes(store, request) ==
    LET cleared == [floors |-> store.floors,
                    duty_slots |-> {k \in store.duty_slots : k[1] \notin Week},
                    assignments |-> {a \in store.assignments : a[1] \notin Week}]
        w == save_loop([floors |-> cleared.floors, duty_slots |-> cleared.duty_slots,
                        added |-> <<>>], request)
        unique == /\ \A i, j \in DOMAIN w.added : i # j => w.added[i] # w.added[j]
                  /\ \A i \in DOMAIN w.added : w.added[i] \notin cleared.assignments
    IN  IF unique
        THEN [ok |-> TRUE,
              store |-> [floors |-> w.floors, duty_slots |-> w.duty_slots,
                         assignments |-> cleared.assignments \cup Range(w.added)]]
        ELSE [ok |-> FALSE, store |-> cleared]

\* Requests of up to MaxEntries entries and the stores they meet.
MaxEntries == 2

SaveEntries ==
    {[day |-> c[1], break_index |-> c[2], floor |-> c[3], teachers |-> ts] :
        c \in {<<0, 1, "EG">>, <<0, 1, "Neu">>, <<1, 2, "EG">>},
        ts \in {<<>>, <<"MU">>, <<"MU", " MU ">>, <<"MU", "Mueller">>, <<"XX">>,
                <<" ", "Mueller, B">>}}

SaveRequests == UNION {[1..n -> SaveEntries] : n \in 0..MaxEntries}

SaveStores ==
    {[floors |-> {<<"EG", 1>>}, duty_slots |-> {}, assignments |-> {}],
     [floors |-> {<<"EG", 1>>}, duty_slots |-> {<<1, 1, 1>>, <<1, 2, 1>>, <<8, 1, 1>>},
      assignments |-> {<<1, 1, 1, 1>>, <<8, 1, 1, 2>>}],
     [floors |-> {<<"EG", 1>>, <<"Neu", 2>>}, duty_slots |-> {<<2, 2, 1>>, <<1, 1, 2>>},
      assignments |-> {<<2, 2, 1, 2>>, <<1, 1, 2, 1>>, <<1, 1, 2, 2>>}]}

SaveInit ==
    /\ mode = "save"
    /\ inp \in {[request |-> r, store |-> st] : r \in SaveRequests, st \in SaveStores}
    /\ pc = "request"
    /\ model = {}
    /\ ph = NoPhase
    /\ result = NoResult
    /\ db = inp.store
    /\ existing_counts = <<>>
    /\ unassigned_slots = <<>>
    /\ random_bias = <<>>
    /\ call = [n |-> 0, before |-> db]

\* One POST /save-changes with the request of inp, sent again after an
\* answer up to MaxCalls times.
SaveChanges ==
    /\ mode = "save" /\ call.n < MaxCalls
    /\ LET r == save_changes(db, inp.request)
       IN  /\ db' = r.store
           /\ pc' = IF r.ok THEN "saved" ELSE "failed"
    /\ call' = [n |-> call.n + 1, before |-> db]
    /\ UNCHANGED <<mode, inp, solver_vars, existing_counts, unassigned_slots,
                   random_bias>>

SaveSpec == SaveInit /\ [][SaveChanges]_vars

(***************************************************************************)
(* Properties of the returned SolverResult and of the stored assignments.  *)
(***************************************************************************)
\* solve() has returned a result with status OPTIMAL or FEASIBLE.
Solved == mode = "cpsat" /\ pc = "done" /\ result.status \in OkStatuses

\* The lesson hours next to a break: break 1: 1; 2: 2/3; 3: 4/5; 4: 6/7.
AdjacentHours(b) == IF b = 1 THEN {1} ELSE {2 * b - 2, 2 * b - 1}

HasLessonAt(t, wd, b) ==
    \E l \in inp.teachers[t].lessons : l[1] = wd /\ l[2] \in AdjacentHours(b)

Assigned(s, f) == Cardinality({k \in result.assignments : k[2] = s /\ k[3] = f})

ReportedShortfall(s, f) ==
    IF <<s, f>> \in DOMAIN result.shortfalls THEN result.shortfalls[<<s, f>>] ELSE 0

\* C3. Coverage identity: in every successful solve(), for every (slot, floor)
\* with need > 0 the returned assignments plus the reported shortfall (0 when
\* absent) equal the need, so the assignments never exceed the need, and no
\* teacher has two returned assignments in one slot.
C3_CoverageIdentity ==
    Solved =>
        /\ \A s \in SlotIds, f \in FloorIds :
            Need(s, f) > 0 =>
                /\ Assigned(s, f) + ReportedShortfall(s, f) = Need(s, f)
                /\ Assigned(s, f) <= Need(s, f)
        /\ \A t \in Teachers, s \in SlotIds :
            Cardinality({k \in result.assignments : k[1] = t /\ k[2] = s}) <= 1

\* A slot and floor that is covered in part: one head assigned, one reported short.
C3_Witness ==
    /\ Solved
    /\ \E s \in SlotIds, f \in FloorIds :
        Need(s, f) = 2 /\ Assigned(s, f) = 1 /\ ReportedShortfall(s, f) = 1

\* The hard constraints as C4 lists them: eligible teachers only, one floor
\* per teacher and slot, at most need heads, and the load caps the band and
\* extra-duty settings imply.
HardLoadCap(t) ==
    LET B == IF inp.fairness_band = None THEN None ELSE Max(0, inp.fairness_band)
        m == IF inp.max_extra_duties = None THEN None ELSE Max(0, inp.max_extra_duties)
        target == Max(0, inp.teachers[t].target)
    IN  IF m = None THEN total_need
        ELSE IF B = None THEN target + 2 * m
        ELSE target + B + m

HardFeasible ==
    LET keys == {k \in Teachers \X SlotIds \X FloorIds :
                    /\ HasLessonAt(k[1], SlotDayIndex(k[2]), SlotBreakIndex(k[2]))
                    /\ Need(k[2], k[3]) > 0}
    IN  {x \in SUBSET keys :
            /\ \A t \in Teachers, s \in SlotIds :
                Cardinality({k \in x : k[1] = t /\ k[2] = s}) <= 1
            /\ \A s \in SlotIds, f \in FloorIds :
                Cardinality({k \in x : k[2] = s /\ k[3] = f}) <= Need(s, f)
            /\ \A t \in Teachers : Cardinality({k \in x : k[1] = t}) <= HardLoadCap(t)}

\* The demand an assignment leaves uncovered.
Uncovered(x) == total_need - Cardinality(x)

MinUncovered == MinOver(HardFeasible, Uncovered)

C8_ExtraDutyCap ==
    (Solved /\ inp.fairness_band # None /\ inp.max_extra_duties # None) =>
        \A t \in Teachers :
            result.loads[t] <= Max(0, inp.teachers[t].target)
                                + Max(0, inp.fairness_band) + Max(0, inp.max_extra_duties)

\* A teacher at the cap who has a lesson next to a slot that stays short.
C8_Witness ==
    /\ Solved /\ inp.fairness_band # None /\ inp.max_extra_duties # None
    /\ \E t \in Teachers, s \in SlotIds, f \in FloorIds :
        /\ result.loads[t] = Max(0, inp.teachers[t].target)
                                + Max(0, inp.fairness_band) + Max(0, inp.max_extra_duties)
        /\ HasLessonAt(t, SlotDayIndex(s), SlotBreakIndex(s))
        /\ ReportedShortfall(s, f) > 0
        /\ \A k \in result.assignments : ~(k[1] = t /\ k[2] = s)

ModelFeasible ==
    {x \in HardFeasible :
        \A t \in Teachers :
            inp.fairness_band # None =>
                Cardinality({k \in x : k[1] = t}) + total_need
                    >= Max(0, Max(0, inp.teachers[t].target) - Max(0, inp.fairness_band))}

\* base(t, f): floor_weights[f] when the teacher has weights (the largest
\* weight plus one for a floor without one), else 0 on the preferred floor,
\* 1 without a preference, 3 otherwise.
BaseCost(t, f) ==
    LET fw == inp.teachers[t].floor_weights
        pref == inp.teachers[t].preferred_floor
        w(g) == fw[g]
    IN  IF DOMAIN fw # {}
        THEN (IF f \in DOMAIN fw THEN fw[f] ELSE MaxOver(DOMAIN fw, w) + 1)
        ELSE IF pref = f THEN 0 ELSE IF pref = None THEN 1 ELSE 3

ClaimedCost(x) ==
    LET c(k) == BaseCost(k[1], k[3]) * (100 + Min(inp.teachers[k[1]].prio_rank, 100))
    IN  SumOver(x, c)

ClampedCost(x) ==
    LET c(k) == BaseCost(k[1], k[3])
                    * (100 + Min(Max(inp.teachers[k[1]].prio_rank, 0), 100))
    IN  SumOver(x, c)

Phases12Optimal == Solved /\ ph.status1 = "OPTIMAL" /\ ph.status2 = "OPTIMAL"

\* C5 as stated. When Phases 1 and 2 end OPTIMAL, priority_cost is the sum of
\* base(t, f) * (100 + min(prio_rank, 100)) over the returned assignments, it
\* is least among the hard-feasible assignments with the Phase 1 shortfall,
\* and it is 0 if every head can be covered on a preferred floor without
\* losing coverage.
C5_AsStated ==
    Phases12Optimal =>
        LET best == {x \in HardFeasible : Uncovered(x) = result.total_shortfall}
        IN  /\ result.priority_cost = ClaimedCost(result.assignments)
            /\ \A x \in best : result.priority_cost <= ClaimedCost(x)
            /\ (\E x \in best : \A k \in x : inp.teachers[k[1]].preferred_floor = k[3])
                    => result.priority_cost = 0

\* C5 amended. prio_rank is clamped to 0..100 in the multiplier, the minimum
\* is over the assignments the model as built admits, and priority_cost is 0
\* if every head can be covered at base cost 0 without losing coverage.
C5_Amended ==
    Phases12Optimal =>
        LET best == {x \in ModelFeasible : Uncovered(x) = result.total_shortfall}
        IN  /\ result.priority_cost = ClampedCost(result.assignments)
            /\ \A x \in best : result.priority_cost <= ClampedCost(x)
            /\ (\E x \in best : \A k \in x : BaseCost(k[1], k[3]) = 0)
                    => result.priority_cost = 0

\* A teacher with a negative prio_rank holds a duty that costs.
C5_Witness ==
    /\ Phases12Optimal
    /\ \E k \in result.assignments :
        inp.teachers[k[1]].prio_rank < 0 /\ BaseCost(k[1], k[3]) > 0

\* The fairness measures of an assignment x, each at its least value.
LoadOf(x, t) == Cardinality({k \in x : k[1] = t})

MaxDevOf(x) ==
    LET dev(t) == Abs(LoadOf(x, t) - Max(0, inp.teachers[t].target))
    IN  MaxOver(Teachers, dev)

TotalDevOf(x) ==
    LET dev(t) ==
            LET d == LoadOf(x, t) - Max(0, inp.teachers[t].target)
                days == inp.teachers[t].availability_days
            IN  IF d >= 0 THEN d ELSE (0 - d) * Max(1, IF days # 0 THEN days ELSE 1)
    IN  SumOver(Teachers, dev)

DailyExcessOf(x) ==
    LET excess(td) ==
            Max(0, Cardinality({k \in x : k[1] = td[1] /\ SlotDate(k[2]) = td[2]}) - 1)
    IN  SumOver(Teachers \X {SlotDate(s) : s \in SlotIds}, excess)

BandViolationOf(x) ==
    LET B == inp.fairness_band
        m == inp.max_extra_duties
        slack(t) ==
            LET load == LoadOf(x, t)
                target == Max(0, inp.teachers[t].target)
            IN  (IF B # None
                 THEN Max(0, Max(0, target - Max(0, B)) - load)
                        + Max(0, load - target - Max(0, B))
                 ELSE IF m # None THEN Max(0, load - target - Max(0, m)) ELSE 0)
                + (IF m # None
                   THEN Max(0, load - target - (IF B # None THEN Max(0, B) ELSE 0)
                                    - Max(0, m))
                   ELSE 0)
    IN  SumOver(Teachers, slack)

\* 1_000_000*max_dev + 10_000*total_dev + W_day*daily_excess + W_band*band_violation.
FairnessValue(max_dev, total_dev, daily_excess, band_violation) ==
    1000000 * max_dev + 10000 * total_dev
    + (IF inp.max_one_per_day THEN 500000 ELSE 100) * daily_excess
    + (IF inp.fairness_band # None \/ inp.max_extra_duties # None
       THEN Max(0, inp.band_penalty) ELSE 0) * band_violation

AllOptimal == Phases12Optimal /\ ph.status3 = "OPTIMAL"

\* The assignments with the returned shortfall and priority cost.
SameCoverageAndCost(X) ==
    {x \in X : /\ Uncovered(x) = result.total_shortfall
               /\ ClampedCost(x) = result.priority_cost}

\* C6 as stated. When all three phases end OPTIMAL, max_dev is the largest
\* |loads - target|, no hard-feasible assignment with the same shortfall and
\* priority cost has a smaller fairness value, and if one of them has every
\* load equal to its target, then max_dev = 0 and band_violation = 0.
C6_AsStated ==
    AllOptimal =>
        /\ result.max_dev = MaxDevOf(result.assignments)
        /\ \A x \in SameCoverageAndCost(HardFeasible) :
            FairnessValue(result.max_dev, result.total_dev, result.daily_excess,
                          result.band_violation)
                <= FairnessValue(MaxDevOf(x), TotalDevOf(x), DailyExcessOf(x),
                                 BandViolationOf(x))
        /\ (\E x \in SameCoverageAndCost(HardFeasible) :
                \A t \in Teachers : LoadOf(x, t) = Max(0, inp.teachers[t].target))
                => result.max_dev = 0 /\ result.band_violation = 0

\* C6 amended. The comparison is with the assignments the model as built
\* admits; if one of them has every load equal to its target and no teacher
\* twice on one date, then max_dev = 0, and band_violation = 0 when
\* band_penalty > 0.
C6_Amended ==
    AllOptimal =>
        /\ result.max_dev = MaxDevOf(result.assignments)
        /\ \A x \in SameCoverageAndCost(ModelFeasible) :
            FairnessValue(result.max_dev, result.total_dev, result.daily_excess,
                          result.band_violation)
                <= FairnessValue(MaxDevOf(x), TotalDevOf(x), DailyExcessOf(x),
                                 BandViolationOf(x))
        /\ (\E x \in SameCoverageAndCost(ModelFeasible) :
                /\ \A t \in Teachers : LoadOf(x, t) = Max(0, inp.teachers[t].target)
                /\ DailyExcessOf(x) = 0)
                => /\ result.max_dev = 0
                   /\ inp.band_penalty > 0 => result.band_violation = 0

\* Every load meets its target under a band whose penalty is 0, and the
\* reported band_violation is positive.
C6_Witness ==
    /\ AllOptimal
    /\ result.assignments # {}
    /\ \A t \in Teachers : result.loads[t] = Max(0, inp.teachers[t].target)
    /\ result.max_dev = 0
    /\ inp.band_penalty = 0 /\ result.band_violation > 0

BandWithoutExtra == Solved /\ inp.fairness_band # None /\ inp.max_extra_duties = 0

C9_AsStated ==
    (mode = "cpsat" /\ inp.teachers # <<>>) =>
        /\ pc # "solve" => model # {}
        /\ pc = "done" => result.status # "INFEASIBLE"

\* The Assignment rows of the store and of the session.
AllRows == db.committed \cup db.rows \cup Range(db.pending)

C2_AsStated ==
    (mode = "greedy" /\ pc \in {"done", "raised"}) =>
        /\ \A i, j \in DOMAIN db.pending : i # j => db.pending[i] # db.pending[j]
        /\ \A r, q \in db.committed :
            (r[4] = q[4] /\ r[1] = q[1] /\ r[2] = q[2]) => r[3] = q[3]

\* generate_assignments has returned.
Completed == mode = "greedy" /\ pc = "done"

\* C11. Exempt exclusion: after generate_assignments(start, end) completes,
\* no assignment on a duty slot dated in [start, end] belongs to a teacher
\* whose exempt flag is true.
C11_ExemptExclusion ==
    Completed =>
        \A r \in AllRows : r[1] \in Dates => ~inp.teachers[r[4]].exempt

\* The run has stored assignments, and an exempt teacher with a positive
\* target has a lesson next to a slot that stays empty; the assignment an
\* exempt teacher held in the range before the run is gone.
C11_Witness ==
    /\ Completed
    /\ \E r \in db.committed : r[1] \in Dates
    /\ \E r \in inp.prior : r[1] \in Dates /\ inp.teachers[r[4]].exempt
    /\ \E s \in slots, t \in Teachers :
        /\ inp.teachers[t].exempt /\ inp.teachers[t].target_duties > 0
        /\ HasLessonAt(t, weekday(s[1]), s[2])
        /\ ~\E r \in db.committed : <<r[1], r[2], r[3]>> = s

\* C12 as stated. After any run of generate_assignments, the fallback passes
\* included, no teacher holds two duties on one date of the range whose break
\* indices differ by exactly 1.
C12_AsStated ==
    Completed =>
        \A r, q \in db.committed :
            (r[1] \in Dates /\ r[4] = q[4] /\ r[1] = q[1]) => Abs(r[2] - q[2]) # 1

\* The assignments on duty slots dated in [start, end].
InRange(rows) == {r \in rows : r[1] \in Dates}

\* C13 as stated. Running generate_assignments twice over the same range with
\* the same teachers, lessons, floors and quotas gives the same set of
\* (duty slot, teacher) assignments.
C13_AsStated ==
    (Completed /\ call.n >= 2) => InRange(db.committed) = InRange(call.before)

\* The assignments on duty slots dated outside [start, end].
OutRange(rows) == {r \in rows : r[1] \notin Dates}

\* C14. Full replacement within the range, nothing outside it: the run
\* starts by deleting every assignment of the range, so each one found there
\* when it completes was created by this invocation, and no step of the run
\* changes an assignment dated outside the range.
C14_FullReplacement ==
    [][ mode = "greedy" =>
            /\ OutRange(db'.committed) = OutRange(db.committed)
            /\ OutRange(db'.rows) = OutRange(db.rows)
            /\ \A i \in DOMAIN db'.pending : db'.pending[i][1] \in Dates
            /\ (pc = "generate" /\ pc' # "lock_failed") =>
                    InRange(db'.committed) = {} /\ InRange(db'.rows) = {}
      ]_vars

\* A completed run found assignments inside and outside the range; those
\* inside are gone, new ones are stored, those outside are still there.
C14_Witness ==
    /\ Completed
    /\ InRange(call.before) # {} /\ OutRange(call.before) # {}
    /\ InRange(db.committed) # {}
    /\ InRange(db.committed) \cap InRange(call.before) = {}
    /\ OutRange(db.committed) = OutRange(call.before)

\* C15 as stated. Clear, compute and write of one invocation are committed as
\* one transaction: until the invocation has returned, the committed store
\* shows the assignments of the range that the invocation found.
C15_AsStated ==
    (mode = "greedy" /\ pc # "done") => InRange(db.committed) = InRange(call.before)

\* C16 as stated. When no non-exempt teacher has a positive target,
\* generate_assignments returns early and the stored assignments of the range
\* are the same after the call as before it.
C16_AsStated ==
    (Completed /\ eligible = {}) => InRange(db.committed) = InRange(call.before)

\* The (date, break, floor) triples ensure_slots is to cover.
WantedSlots ==
    {k \in (inp.start_date..inp.end_date) \X (1..breaks_per_day) \X inp.floors :
        weekday(k[1]) \in 0..4}

\* C17. After ensure_slots(start, end, breaks_per_day) exactly one DutySlot
\* exists for every Monday-to-Friday date of the range, every break index and
\* every floor; the returned list holds exactly these slots; no slot is
\* created for a Saturday or Sunday; a second call with the same arguments
\* creates no slot and returns the same slots.
C17_EnsureSlots ==
    (mode = "slots" /\ call.n >= 1) =>
        /\ \A k \in WantedSlots :
            Cardinality({i \in DOMAIN db.duty_slots : db.duty_slots[i] = k}) = 1
        /\ {db.duty_slots[i] : i \in Range(db.returned)} = WantedSlots
        /\ Len(db.returned) = Cardinality(WantedSlots)
        /\ \A i \in DOMAIN db.duty_slots :
            i > Len(inp.table) => db.duty_slots[i] \in WantedSlots
        /\ call.n >= 2 => db = call.before

\* The second call is over: the range holds a weekend day and working days,
\* the table held one wanted slot before the first call, and the first call
\* created others.
C17_Witness ==
    /\ mode = "slots" /\ call.n = 2
    /\ \E d \in inp.start_date..inp.end_date : weekday(d) \in {5, 6}
    /\ \E k \in WantedSlots : k \in Range(inp.table)
    /\ Len(db.duty_slots) > Len(inp.table)
    /\ inp.floors = FloorIds

\* C18 as stated. A lock failure of the store during clear_assignments is
\* retried up to 5 times: the invocation fails on it only after 5 attempts.
C18_AsStated ==
    (mode = "greedy" /\ pc = "lock_failed") => call.clear_attempts = 5

Phase1Failed == mode = "cpsat" /\ pc = "done" /\ ph.status1 \in {"INFEASIBLE", "UNKNOWN"}

\* C19. If Phase 1 ends neither OPTIMAL nor FEASIBLE, solve() returns a result
\* with the Phase 1 status name, no assignments, every teacher's load 0 and
\* total_shortfall equal to the total demand; Phases 2 and 3 are not run.
C19_Phase1Failure ==
    Phase1Failed =>
        /\ result.status = ph.status1
        /\ result.assignments = {}
        /\ DOMAIN result.loads = Teachers
        /\ \A t \in Teachers : result.loads[t] = 0
        /\ result.total_shortfall = SumOver(NeedKeys, LAMBDA k : inp.needs[k[1]][k[2]])
        /\ ph.status2 = "NONE" /\ ph.status3 = "NONE"

\* Phase 1 ran out of time on a model that has solutions covering demand.
C19_Witness ==
    /\ Phase1Failed
    /\ ph.status1 = "UNKNOWN"
    /\ \E x \in model : x # {}
    /\ result.total_shortfall > 0

\* The solutions the last successful phase can hold.
LastSuccessful ==
    IF ph.status3 \in OkStatuses THEN Pinned2
    ELSE IF ph.status2 \in OkStatuses
         THEN {x \in Pinned1 : PriorityOf(x) = ph.best_priority}
         ELSE Pinned1

LastStatus ==
    IF ph.status3 \in OkStatuses THEN ph.status3
    ELSE IF ph.status2 \in OkStatuses THEN ph.status2 ELSE ph.status1

\* C20 as stated. After a successful Phase 1, whatever Phases 2 and 3 do,
\* solve() returns the assignments of the most recent phase that ended
\* OPTIMAL or FEASIBLE, with that phase's status, and priority_cost is the
\* priority cost of the returned assignments.
C20_AsStated ==
    (mode = "cpsat" /\ pc = "done" /\ ph.status1 \in OkStatuses) =>
        /\ result.status \in OkStatuses
        /\ result.status = LastStatus
        /\ result.assignments \in LastSuccessful
        /\ result.priority_cost = PriorityOf(result.assignments)

\* The conditions of Fallback 3 for teacher t at a slot, read on the stored rows.
PassesFallback3(rows, t, slot) ==
    /\ t \notin already(rows, slot[1], slot[2])
    /\ is_available_on_weekday(t, weekday(slot[1]))
    /\ is_available_for_supervision(t, weekday(slot[1]), slot[2])
    /\ ~has_consecutive(rows, t, slot[1], slot[2])

Heads(rows, slot) == Cardinality({q \in rows : <<q[1], q[2], q[3]>> = slot})

\* C21 as stated. At the end of generate_assignments a duty slot has fewer
\* than floor.required_per_break assignments only if no participating teacher
\* passes the Fallback 3 conditions for it: every missing head was offered to
\* all four stages.
C21_AsStated ==
    Completed =>
        \A slot \in slots :
            Heads(db.committed, slot) < inp.required_per_break[slot[3]] =>
                ~\E t \in eligible : PassesFallback3(db.committed, t, slot)

\* The second solve(), on the decreased demand, has returned a result.
DecreasedSolved == Returned /\ call.n = 1

\* C22 as stated. For any solver input and any (slot, floor) with need >= 1,
\* solve() on the same input with that need decreased by 1 yields a
\* total_shortfall at most 1 larger than the original total_shortfall.
C22_AsStated ==
    DecreasedSolved => result.total_shortfall <= call.before.total_shortfall + 1

OnePerDayOptimal == AllOptimal /\ inp.max_one_per_day

\* C23 as stated. With max_one_per_day, among the hard-feasible assignments
\* with total shortfall S* and priority cost P* the solver returns one whose
\* total daily excess is minimal: no same-day duty is accepted in exchange for
\* a smaller max_dev or total_dev.
C23_AsStated ==
    OnePerDayOptimal =>
        \A x \in SameCoverageAndCost(HardFeasible) :
            result.daily_excess <= DailyExcessOf(x)

\* 1_000_000*max_dev + 10_000*total_dev + W_band*band_violation.
OtherFairness(max_dev, total_dev, band_violation) ==
    FairnessValue(max_dev, total_dev, 0, band_violation)

\* C23 amended. With max_one_per_day every same-day duty weighs 500_000, half
\* the weight of max_dev. Against any assignment the model admits with the
\* same S* and P*: the result has more daily excess only if its
\* 1_000_000*max_dev + 10_000*total_dev + W_band*band_violation is lower by
\* at least 500_000 for each duty of the difference, and it has less daily
\* excess only if that sum is higher by at most 500_000 for each such duty.
C23_Amended ==
    OnePerDayOptimal =>
        \A x \in SameCoverageAndCost(ModelFeasible) :
            LET mine == OtherFairness(result.max_dev, result.total_dev,
                                      result.band_violation)
                other == OtherFairness(MaxDevOf(x), TotalDevOf(x), BandViolationOf(x))
            IN  /\ result.daily_excess > DailyExcessOf(x) =>
                        mine + 500000 * (result.daily_excess - DailyExcessOf(x)) <= other
                /\ result.daily_excess < DailyExcessOf(x) =>
                        mine <= other + 500000 * (DailyExcessOf(x) - result.daily_excess)

\* The result puts a teacher on duty twice on one date, and an assignment
\* with the same shortfall and priority cost does not.
C23_Witness ==
    /\ OnePerDayOptimal
    /\ result.daily_excess > 0
    /\ \E x \in SameCoverageAndCost(ModelFeasible) : DailyExcessOf(x) = 0

\* The calls of pick_teacher one run of the primary loop makes: the flushed
\* rows and existing_counts each call reads, its slot and the teacher it
\* returns.
RECURSIVE head_picks(_, _, _)
head_picks(st, slot, needed) ==
    IF needed = 0 THEN {}
    ELSE LET t == pick_teacher(st.rows, st.counts, slot[1], slot[2], slot[3])
         IN  {[rows |-> st.rows, counts |-> st.counts, slot |-> slot, t |-> t]}
             \cup (IF t = None THEN {}
                   ELSE head_picks(add_assignment(st, slot, t), slot, needed - 1))

RECURSIVE primary_picks(_, _)
primary_picks(st, todo) ==
    IF todo = <<>> \/ ~st.ok THEN {}
    ELSE LET slot == Head(todo)
             current_assigned ==
                Cardinality({q \in st.rows : <<q[1], q[2], q[3]>> = slot})
             needed == Max(0, floor_required(slot[3]) - current_assigned)
         IN  head_picks(st, slot, needed)
             \cup primary_picks(flush(primary_heads(st, slot, needed)), Tail(todo))

\* The candidates pick_teacher admits: not yet at this break, present, with
\* an adjacent lesson, below target, no consecutive break, under 2 duties.
Admissible(rows, counts, d, break_index) ==
    {t \in eligible :
        /\ t \notin already(rows, d, break_index)
        /\ is_available_on_weekday(t, weekday(d))
        /\ is_available_for_supervision(t, weekday(d), break_index)
        /\ counts[t] < inp.teachers[t].target_duties
        /\ ~has_consecutive(rows, t, d, break_index)
        /\ Cardinality(existing_breaks(rows, t, d)) < 2}

\* 0 preferred floor, 1 no preference, 2 conflicting preference.
PreferenceClass(t, floor_id) ==
    IF inp.teachers[t].preferred_floor_id = floor_id THEN 0
    ELSE IF inp.teachers[t].preferred_floor_id = None THEN 1 ELSE 2

PrimaryPicks ==
    IF mode = "greedy" /\ pc = "primary"
    THEN primary_picks(pass_state, sorted_slots) ELSE {}

\* C24 as stated. Whenever pick_teacher has admissible candidates, it chooses
\* from the best non-empty preference class (preferred floor, no preference,
\* conflicting preference); a conflicting-preference teacher is never chosen
\* while an admissible teacher who prefers this floor exists.
C24_AsStated ==
    \A e \in PrimaryPicks :
        e.t # None =>
            \A o \in Admissible(e.rows, e.counts, e.slot[1], e.slot[2]) :
                PreferenceClass(e.t, e.slot[3]) <= PreferenceClass(o, e.slot[3])

\* The teacher's assignments in the range that the session holds, flushed or not.
RangeLoad(store, t) ==
    Cardinality({r \in store.rows : r[4] = t /\ r[1] \in Dates})
    + Cardinality({i \in DOMAIN store.pending :
                        store.pending[i][4] = t /\ store.pending[i][1] \in Dates})

\* C25. Target cap is kept until Fallback 3: a step of generate_assignments
\* gives a teacher a further duty only if the teacher has a positive target,
\* and, unless the step is the Fallback 3 loop, only up to that target; so a
\* load exceeds its target only by duties received in Fallback 3.
C25_TargetCap ==
    [][mode = "greedy" =>
        \A t \in Teachers :
            RangeLoad(db', t) > RangeLoad(db, t) =>
                /\ inp.teachers[t].target_duties > 0
                /\ pc # "fallback3" => RangeLoad(db', t) <= inp.teachers[t].target_duties]_vars

\* Before Fallback 3 a teacher at target passes every other condition for a
\* slot that is still unassigned.
C25_Witness ==
    /\ mode = "greedy" /\ pc = "fallback3"
    /\ \E t \in eligible, i \in DOMAIN unassigned_slots :
        /\ RangeLoad(db, t) = inp.teachers[t].target_duties
        /\ PassesFallback3(db.rows, t, unassigned_slots[i])

\* C26. Fallback 1 can never succeed: the Fallback 1 loop adds no assignment
\* and removes no slot from unassigned_slots, so every slot the primary pass
\* left unassigned is still unassigned after it, and every fallback
\* assignment is made by Fallback 2 or Fallback 3.
C26_Fallback1Idle ==
    [][(mode = "greedy" /\ pc = "fallback1") =>
            /\ pc' = "fallback2"
            /\ db' = db
            /\ existing_counts' = existing_counts
            /\ unassigned_slots' = unassigned_slots]_vars

\* Fallback 1 has run and left a slot for which Fallback 3 has a candidate.
C26_Witness ==
    /\ mode = "greedy" /\ pc = "fallback2"
    /\ \E i \in DOMAIN unassigned_slots :
        LET slot == unassigned_slots[i]
        IN  pick_teacher_fallback_3(db.rows, existing_counts,
                                    slot[1], slot[2], slot[3]) # None

\* C27 as stated. In every SolverResult solve() returns, the early return and
\* the Phase 1 failure result included, total_shortfall is the sum of the
\* shortfalls map, len(assignments) + total_shortfall is the total demand,
\* and loads[t] is the number of returned assignments of teacher t.
C27_AsStated ==
    Returned =>
        /\ result.total_shortfall =
                SumOver(DOMAIN result.shortfalls, LAMBDA k : result.shortfalls[k])
        /\ Cardinality(result.assignments) + result.total_shortfall = total_need
        /\ DOMAIN result.loads = Teachers
        /\ \A t \in Teachers :
                result.loads[t] = Cardinality({k \in result.assignments : k[1] = t})

ExtraWithoutBand == Solved /\ inp.fairness_band = None /\ inp.max_extra_duties # None

\* What teacher t's load lies above target + max_extra_duties.
AboveExtra(t) ==
    Max(0, result.loads[t] - Max(0, inp.teachers[t].target) - Max(0, inp.max_extra_duties))

\* C28 as stated. In every successful solve() without a band and with
\* max_extra_duties = m, every load is at most target + m.
C28_AsStated ==
    ExtraWithoutBand => \A t \in Teachers : AboveExtra(t) = 0

\* C28 amended. Without a band and with max_extra_duties = m, target + m is
\* a soft cap with a slack of at most m: every load is at most target + 2m,
\* and band_violation is at least twice the sum of what the loads lie above
\* target + m.
C28_Amended ==
    ExtraWithoutBand =>
        /\ \A t \in Teachers : AboveExtra(t) <= Max(0, inp.max_extra_duties)
        /\ result.band_violation >= 2 * SumOver(Teachers, AboveExtra)

\* A load above target + m.
C28_Witness ==
    /\ ExtraWithoutBand
    /\ \E t \in Teachers :
        AboveExtra(t) > 0 /\ AboveExtra(t) = Max(0, inp.max_extra_duties)

\* The stored duty slots and assignments of the current week.
WeekRows(store) ==
    [duty_slots |-> {k \in store.duty_slots : k[1] \in Week},
     assignments |-> {a \in store.assignments : a[1] \in Week}]

\* The (day, break, floor name, teacher) entries of the request whose name
\* is that of a teacher.
Submitted ==
    UNION {{<<e.day, e.break_index, e.floor, teachers_by_name[strip(n)]>> :
                n \in {m \in Range(e.teachers) : strip(m) \in DOMAIN teachers_by_name}} :
            e \in Range(inp.request)}

\* The week's assignments of the store, floors by name.
StoredWeek ==
    {<<a[1] - 1, a[2], (CHOOSE f \in db.floors : f[2] = a[3])[1], a[4]>> :
        a \in WeekRows(db).assignments}

\* C29 as stated. Manual save is all-or-nothing: after a failed save_changes
\* the stored duty slots and assignments of the current week are the same as
\* before the call; after a successful one the week's assignments are exactly
\* the submitted entries whose teacher name is known.
C29_AsStated ==
    mode = "save" =>
        /\ pc = "failed" => WeekRows(db) = WeekRows(call.before)
        /\ pc = "saved" => StoredWeek = Submitted

\* The weekdays of the list given to set_attendance_days.
GivenDays == {day_map[d] : d \in inp.days_list}

\* The rows generate_assignments has written for teacher t.
Scheduled(t) == {a \in db.rows \ inp.prior : a[4] = t}

\* C30 as stated. Attendance round-trip: after set_attendance_days(D), for
\* every subset D of the five weekdays and every lesson timetable,
\* is_available_on_weekday(w) is true exactly for the weekdays w in D, and the
\* greedy scheduler assigns the teacher no duty on a weekday outside D.
C30_AsStated ==
    (mode = "greedy" /\ "days_list" \in DOMAIN inp /\ pc # "attendance") =>
        /\ \A w \in 0..4 : is_available_on_weekday(1, w) <=> w \in GivenDays
        /\ \A a \in Scheduled(1) : weekday(a[1]) \in GivenDays

====
